---- MODULE Spec2Model ----
(***************************************************************************)
(* Commonplace: a git-backed note repository with a search index.          *)
(*                                                                         *)
(* Part 1 models the repository (src/commonplace/_repo.py): the working    *)
(* tree, the git index, the commit graph, and make_repo_path with its      *)
(* process-wide path -> commit map.                                        *)
(* Part 2 models the chunker (src/commonplace/_search/_chunker.py).        *)
(* Part 3 models the search index (src/commonplace/_search/_sqlite.py) and *)
(* the index command (src/commonplace/_search/_commands.py).               *)
(* Parts 4 and 5 model the index used directly and search; part 6 the blob *)
(* store (Commonplace.store_blob); part 7 sync (Commonplace.sync).         *)
(***************************************************************************)
EXTENDS Integers, Sequences, FiniteSets, TLC

VARIABLES
    commits,    \* the object database: a sequence of commits, a commit's id is its position
    head,       \* the commit id HEAD points at
    staged,     \* the git index: path -> content (NoFile: no entry)
    work,       \* the working tree: path -> content (NoFile: no file)
    cache,      \* the lru_cache of _build_path_commit_map: <<>> or <<map>>
    rows,       \* the chunks table of the search index
    chunks_fts, \* the full-text index chunks_fts: its entries
    runs,       \* how many times the index command, or search, has run
    ret,        \* what the last operation returned
    kept,       \* one RepoPath returned earlier, with the content it named
    chunker,    \* <<>>, or a MarkdownChunker with the note it is about to be given
    blobs,      \* the blob store: the files under .commonplace/blobs
    remote,     \* <<>>, or the remote "origin": branch -> the commit it points at
    other       \* refs/heads/other, a local branch that is not checked out (NoCommit: none)

repoVars == <<commits, head, staged, work, cache>>

(***************************************************************************)
(* Bounds                                                                  *)
(***************************************************************************)
MaxCommits == 3
MaxRuns == 2

\* The note files of the repository.
Paths == {"a.md", "b.md"}

\* File contents are numbered; NoFile stands for a path without a file.
NoFile == 0
Contents == {1, 2}

\* ref of a path the map does not hold
NoCommit == 0

(***************************************************************************)
(* Part 1: the repository                                                  *)
(***************************************************************************)

EmptyTree == [p \in Paths |-> NoFile]

\* Commonplace.init: one parentless commit holding no note.
InitCommit == [parents |-> <<>>, tree |-> EmptyTree, message |-> "Initial commit"]

\* Commonplace.open accepts every repository whose head is born. Besides a
\* freshly initialised repository, one with two parentless commits joined by a
\* merge: 1 holds a.md, 2 (younger) holds b.md, 3 merges 2 into 1.
OpenedRepositories ==
    { [commits |-> <<InitCommit>>, head |-> 1],
      [commits |-> << [parents |-> <<>>, tree |-> [p \in Paths |-> IF p = "a.md" THEN 1 ELSE NoFile], message |-> "a"],
                      [parents |-> <<>>, tree |-> [p \in Paths |-> IF p = "b.md" THEN 1 ELSE NoFile], message |-> "b"],
                      [parents |-> <<1, 2>>, tree |-> [p \in Paths |-> 1], message |-> "merge"] >>,
       head |-> 3] }

HeadTree == commits[head].tree

\* git.status_file(path): KeyError when the path is in none of HEAD, the index
\* and the working tree; otherwise the set of flags (empty: FileStatus.CURRENT).
StatusFlags(p) ==
    LET h == HeadTree[p]
        i == staged[p]
        w == work[p]
    IN  (IF h = NoFile /\ i # NoFile THEN {"INDEX_NEW"} ELSE {})
        \cup (IF h # NoFile /\ i # NoFile /\ h # i THEN {"INDEX_MODIFIED"} ELSE {})
        \cup (IF h # NoFile /\ i = NoFile THEN {"INDEX_DELETED"} ELSE {})
        \cup (IF i = NoFile /\ w # NoFile THEN {"WT_NEW"} ELSE {})
        \cup (IF i # NoFile /\ w # NoFile /\ i # w THEN {"WT_MODIFIED"} ELSE {})
        \cup (IF i # NoFile /\ w = NoFile THEN {"WT_DELETED"} ELSE {})

StatusKnown(p) == ~(HeadTree[p] = NoFile /\ staged[p] = NoFile /\ work[p] = NoFile)

\* flags == FileStatus.CURRENT; the variant before it looks at the
\* working-tree flags only.
IsCurrentWorktreeOnly(flags) == flags \cap {"WT_NEW", "WT_MODIFIED", "WT_DELETED"} = {}

IsCurrent(flags) == flags = {}

\* The commits reachable from c.
RECURSIVE Reachable(_, _)
Reachable(cs, frontier) ==
    LET next == frontier \cup UNION { {cs[c].parents[i] : i \in 1..Len(cs[c].parents)} : c \in frontier }
    IN  IF next = frontier THEN frontier ELSE Reachable(cs, next)

\* git.walk(head): the reachable commits, youngest first (a commit's id grows
\* with its commit time).
RECURSIVE SortDescending(_)
SortDescending(S) ==
    IF S = {} THEN <<>>
    ELSE LET m == CHOOSE x \in S : \A y \in S : y <= x
         IN  <<m>> \o SortDescending(S \ {m})

Walk(cs, h) == SortDescending(Reachable(cs, {h}))

\* git.diff(parent, commit).deltas: the paths whose entry differs.
DiffDeltas(cs, parent, c) == { p \in Paths : cs[parent].tree[p] # cs[c].tree[p] }

\* The loop of _build_path_commit_map over the walk.
RECURSIVE WalkLoop(_, _, _, _)
WalkLoop(cs, order, remaining, map) ==
    IF order = <<>> \/ remaining = {} THEN map
    ELSE LET c == Head(order)
         IN  IF cs[c].parents = <<>>
             THEN [p \in Paths |-> IF p \in remaining THEN c ELSE map[p]]
             ELSE LET hit == DiffDeltas(cs, cs[c].parents[1], c) \cap remaining
                  IN  WalkLoop(cs, Tail(order), remaining \ hit,
                               [p \in Paths |-> IF p \in hit THEN c ELSE map[p]])

\* _build_path_commit_map without its cache: path -> commit, NoCommit for a
\* path the map does not hold.
BuildPathCommitMap(cs, h) ==
    WalkLoop(cs, Walk(cs, h), { p \in Paths : cs[h].tree[p] # NoFile },
             [p \in Paths |-> NoCommit])

\* lru_cache(maxsize=1) keyed by repo_dir alone: the stored map if there is
\* one, whatever HEAD it was computed for.
CachedMap(cs, h, c) ==
    IF c # <<>> THEN c[1] ELSE BuildPathCommitMap(cs, h)

\* path_map.get(path, head_ref)
MapGet(map, p, h) == IF map[p] # NoCommit THEN map[p] ELSE h

NoRet == [op |-> "none"]

\* git.remotes holds no remote named "origin"
NoRemote == <<>>

RepoInit ==
    /\ \E r \in OpenedRepositories :
          /\ commits = r.commits
          /\ head = r.head
          /\ staged = r.commits[r.head].tree
          /\ work = r.commits[r.head].tree
    /\ cache = <<>>
    /\ rows = {}
    /\ chunks_fts = {}
    /\ runs = 0
    /\ ret = NoRet
    /\ kept = <<>>
    /\ chunker = <<>>
    /\ blobs = {}
    /\ remote = NoRemote
    /\ other = NoCommit

\* Commonplace.save(note): write the file and stage it.
Save(p, c) ==
    /\ work' = [work EXCEPT ![p] = c]
    /\ staged' = [staged EXCEPT ![p] = c]
    /\ ret' = [op |-> "save"]
    /\ UNCHANGED <<commits, head, cache, kept, rows, runs, chunker, blobs, remote, other, chunks_fts>>

\* An edit of the working tree from outside (the editor the journal command
\* opens, or the user): the file is written or removed, nothing is staged.
WorkEdit(p, c) ==
    /\ work[p] # c
    /\ work' = [work EXCEPT ![p] = c]
    /\ ret' = [op |-> "edit"]
    /\ UNCHANGED <<commits, head, staged, cache, kept, rows, runs, chunker, blobs, remote, other, chunks_fts>>

\* The messages commit is called with.
Messages == { "Add second note", "Update note" }

\* has_changes of commit: the tree written from the index differs from HEAD's
HasChanges(tree, head_tree) == tree # head_tree

CreateCommitWithoutParent(cs, parent, message, tree) ==
    Append(cs, [parents |-> <<>>, tree |-> tree, message |-> message])

\* git.create_commit("HEAD", author, committer, message, tree, [head.target])
CreateCommit(cs, parent, message, tree) ==
    Append(cs, [parents |-> <<parent>>, tree |-> tree, message |-> message])

\* Commonplace.commit(message)
Commit(message) ==
    /\ (HasChanges(staged, HeadTree) => Len(commits) < MaxCommits)
    /\ IF ~HasChanges(staged, HeadTree)
       THEN /\ ret' = [op |-> "commit", created |-> FALSE, before |-> head, message |-> message]
            /\ UNCHANGED <<commits, head>>
       ELSE /\ commits' = CreateCommit(commits, head, message, staged)
            /\ head' = Len(commits) + 1
            /\ ret' = [op |-> "commit", created |-> TRUE, before |-> head, message |-> message]
    /\ UNCHANGED <<staged, work, cache, kept, rows, runs, chunker, blobs, remote, other, chunks_fts>>

\* The status make_repo_path branches on.
PathStatus(p) ==
    IF ~StatusKnown(p) THEN "NOTFOUND"
    ELSE IF IsCurrent(StatusFlags(p)) THEN "CURRENT" ELSE "DIRTY"

\* The ref make_repo_path returns for p when the cached function yields map.
RefOf(p, map) == IF PathStatus(p) = "CURRENT" THEN MapGet(map, p, head) ELSE head

\* Commonplace.make_repo_path(path). walkFails: the history walk raises
\* (an object of the history cannot be read); the walk runs only when the
\* path is clean and no map is cached, and lru_cache stores no exception.
MakeRepoPath(p, walkFails, keep) ==
    LET walks == PathStatus(p) = "CURRENT" /\ cache = <<>>
        raised == walks /\ walkFails
        map == CachedMap(commits, head, cache)
        ref == RefOf(p, map)
    IN  /\ (walkFails => walks)
        /\ ret' = [op |-> "make_repo_path", path |-> p, walkFailed |-> walks /\ walkFails,
                   raised |-> raised, ref |-> IF raised THEN NoCommit ELSE ref]
        /\ cache' = IF PathStatus(p) = "CURRENT" /\ ~raised THEN <<map>> ELSE cache
        /\ kept' = IF keep /\ ~raised /\ work[p] # NoFile
                   THEN <<[path |-> p, ref |-> ref, content |-> work[p]]>>
                   ELSE kept
        /\ UNCHANGED <<commits, head, staged, work, rows, runs, chunker, blobs, remote, other, chunks_fts>>

\* A new process opens the repository (Commonplace.open): the lru_cache is
\* process-wide static state and starts empty.
NewProcess ==
    /\ cache # <<>>
    /\ cache' = <<>>
    /\ UNCHANGED <<commits, head, staged, work, kept, rows, runs, ret, chunker, blobs, remote, other, chunks_fts>>

vars == <<commits, head, staged, work, cache, rows, chunks_fts, runs, ret, kept, chunker, blobs, remote, other>>

Init == RepoInit

Next ==
    \/ \E p \in Paths, c \in Contents : Save(p, c)
    \/ \E p \in Paths, c \in Contents \cup {NoFile} : WorkEdit(p, c)
    \/ \E message \in Messages : Commit(message)
    \/ \E p \in Paths, f \in BOOLEAN : MakeRepoPath(p, f, FALSE)
    \/ NewProcess

Spec == Init /\ [][Next]_vars

\* The same program, with an observer that may keep a returned RepoPath.
NextKeeping ==
    \/ \E p \in Paths, c \in Contents : Save(p, c)
    \/ \E p \in Paths, c \in Contents \cup {NoFile} : WorkEdit(p, c)
    \/ Commit("Update note")
    \/ \E p \in Paths, f \in BOOLEAN, k \in BOOLEAN : MakeRepoPath(p, f, k)
    \/ NewProcess

SpecKeeping == Init /\ [][NextKeeping]_vars

(***************************************************************************)
(* Part 2: the chunker. Text is a sequence of one-character strings.       *)
(***************************************************************************)

\* MarkdownChunker.__init__ defaults
DefaultMaxChunkChars == 1024
DefaultOverlapChars == 200

\* str.strip() and \s: the whitespace characters of the modelled alphabet
IsSpace(ch) == ch \in {" ", "\n", "\t"}

RECURSIVE LStrip(_)
LStrip(s) == IF s # <<>> /\ IsSpace(Head(s)) THEN LStrip(Tail(s)) ELSE s

RECURSIVE RStrip(_)
RStrip(s) ==
    IF s # <<>> /\ IsSpace(s[Len(s)]) THEN RStrip(SubSeq(s, 1, Len(s) - 1)) ELSE s

\* str.strip()
Strip(s) == RStrip(LStrip(s))

\* content.split("\n"): always at least one line
RECURSIVE SplitLines(_)
SplitLines(s) ==
    IF \A i \in 1..Len(s) : s[i] # "\n" THEN <<s>>
    ELSE LET k == CHOOSE i \in 1..Len(s) : s[i] = "\n" /\ \A j \in 1..(i - 1) : s[j] # "\n"
         IN  <<SubSeq(s, 1, k - 1)>> \o SplitLines(SubSeq(s, k + 1, Len(s)))

\* sep.join(parts)
RECURSIVE Join(_, _)
Join(parts, sep) ==
    IF parts = <<>> THEN <<>>
    ELSE IF Len(parts) = 1 THEN parts[1]
    ELSE parts[1] \o sep \o Join(Tail(parts), sep)

\* The number of leading characters of s that satisfy the test.
RECURSIVE LeadingHashes(_)
LeadingHashes(s) == IF s # <<>> /\ Head(s) = "#" THEN 1 + LeadingHashes(Tail(s)) ELSE 0

RECURSIVE LeadingSpaces(_)
LeadingSpaces(s) == IF s # <<>> /\ IsSpace(Head(s)) THEN 1 + LeadingSpaces(Tail(s)) ELSE 0

\* (?:\s+\[.*\])?$ : the rest of the line is empty, or whitespace, "[",
\* anything, and a closing "]" at the end of the line.
IsAnnotationOrEnd(rest) ==
    \/ rest = <<>>
    \/ LET w == LeadingSpaces(rest)
       IN  /\ w >= 1
           /\ Len(rest) >= w + 2
           /\ rest[w + 1] = "["
           /\ rest[Len(rest)] = "]"

\* re.match(r"^(#{1,6})\s+(.+?)(?:\s+\[.*\])?$", line): level is group 1's
\* length, text is group 2 (the shortest that lets the rest match) stripped.
HeaderMatch(line) ==
    LET n == LeadingHashes(line)
        afterHashes == SubSeq(line, n + 1, Len(line))
        w == LeadingSpaces(afterHashes)
        body == SubSeq(afterHashes, w + 1, Len(afterHashes))
    IN  IF n < 1 \/ n > 6 \/ w < 1 THEN [match |-> FALSE]
        ELSE IF body = <<>>
             \* only whitespace follows: \s+ gives its last character to group 2
             THEN IF w >= 2 THEN [match |-> TRUE, level |-> n, text |-> <<>>]
                  ELSE [match |-> FALSE]
        ELSE LET k == CHOOSE i \in 1..Len(body) :
                          /\ IsAnnotationOrEnd(SubSeq(body, i + 1, Len(body)))
                          /\ \A j \in 1..(i - 1) : ~IsAnnotationOrEnd(SubSeq(body, j + 1, Len(body)))
             IN  [match |-> TRUE, level |-> n, text |-> Strip(SubSeq(body, 1, k))]

\* A slice that cuts nothing off.
PySliceWhole(s, i, j) == s

\* Python's s[i:j] for integers i, j (negative indices count from the end)
PySlice(s, i, j) ==
    LET n == Len(s)
        ii == IF i < 0 THEN (IF i + n < 0 THEN 0 ELSE i + n) ELSE (IF i > n THEN n ELSE i)
        jj == IF j < 0 THEN (IF j + n < 0 THEN 0 ELSE j + n) ELSE (IF j > n THEN n ELSE j)
    IN  IF ii >= jj THEN <<>> ELSE SubSeq(s, ii + 1, jj)

\* s.rfind(ch): the last 0-based position of ch, -1 if there is none
RFind(s, ch) ==
    IF \A i \in 1..Len(s) : s[i] # ch THEN -1
    ELSE (CHOOSE i \in 1..Len(s) : s[i] = ch /\ \A j \in (i + 1)..Len(s) : s[j] # ch) - 1

Max2(a, b) == IF a >= b THEN a ELSE b

\* note.repo_path.path.stem
PathStem(p) == IF p = "a.md" THEN <<"a">> ELSE <<"b">>

\* The iterations of the while loop of _split_if_needed, cut off after fuel
\* iterations: the chunk each yields, and the cursor before and after it.
RECURSIVE SplitSteps(_, _, _, _, _, _, _, _)
SplitSteps(repo_path, section_path, chunk_text, start_offset, current_pos, maxChars, overlap, fuel) ==
    IF ~(current_pos < Len(chunk_text)) \/ fuel = 0 THEN <<>>
    ELSE LET end0 == current_pos + maxChars
             sub0 == PySlice(chunk_text, current_pos, end0)
             last_break == Max2(RFind(sub0, " "), RFind(sub0, "\n"))
             breaks == end0 < Len(chunk_text) /\ last_break > maxChars \div 2
             sub == IF breaks THEN PySlice(sub0, 0, last_break) ELSE sub0
             end_pos == IF breaks THEN current_pos + last_break ELSE end0
             next_pos == IF end_pos < Len(chunk_text) THEN end_pos - overlap ELSE end_pos
         IN  <<[chunk |-> [repo_path |-> repo_path, text |-> Strip(sub),
                           section |-> section_path, offset |-> start_offset + current_pos],
                current_pos |-> current_pos, end_pos |-> end_pos, next_pos |-> next_pos]>>
             \o SplitSteps(repo_path, section_path, chunk_text, start_offset, next_pos,
                           maxChars, overlap, fuel - 1)

\* The chunks the while loop yields.
SplitLoop(repo_path, section_path, chunk_text, start_offset, current_pos, maxChars, overlap, fuel) ==
    LET steps == SplitSteps(repo_path, section_path, chunk_text, start_offset, current_pos,
                            maxChars, overlap, fuel)
    IN  [i \in 1..Len(steps) |-> steps[i].chunk]

\* MarkdownChunker._split_if_needed
SplitIfNeeded(repo_path, section_stack, text_lines, start_offset, maxChars, overlap, fuel) ==
    LET section_path == IF section_stack # <<>> THEN Join(section_stack, <<" ", "/", " ">>)
                        ELSE PathStem(repo_path.path)
        chunk_text == Strip(Join(text_lines, <<"\n">>))
    IN  IF Len(chunk_text) <= maxChars
        THEN <<[repo_path |-> repo_path, text |-> chunk_text, section |-> section_path,
                offset |-> start_offset]>>
        ELSE SplitLoop(repo_path, section_path, chunk_text, start_offset, 0, maxChars, overlap, fuel)

\* The iterations _split_if_needed makes: none when the text fits.
SplitIterations(repo_path, section_stack, text_lines, start_offset, maxChars, overlap, fuel) ==
    LET section_path == IF section_stack # <<>> THEN Join(section_stack, <<" ", "/", " ">>)
                        ELSE PathStem(repo_path.path)
        chunk_text == Strip(Join(text_lines, <<"\n">>))
    IN  IF Len(chunk_text) <= maxChars THEN <<>>
        ELSE SplitSteps(repo_path, section_path, chunk_text, start_offset, 0, maxChars, overlap, fuel)

\* current_text and any(t.strip() for t in current_text)
HasContent(text_lines) == \E i \in 1..Len(text_lines) : Strip(text_lines[i]) # <<>>

\* The flush of the accumulated text, at a header and at the end.
Flush(repo_path, st, maxChars, overlap, fuel) ==
    IF HasContent(st.current_text)
    THEN SplitIfNeeded(repo_path, st.current_section, st.current_text,
                       st.chunk_start_offset, maxChars, overlap, fuel)
    ELSE <<>>

\* A header that is pushed without closing any heading.
PushHeaderKeepingAll(current_section, level, header_text) == Append(current_section, header_text)

\* current_section = current_section[: level - 1]; current_section.append(header_text)
PushHeader(current_section, level, header_text) ==
    Append(PySlice(current_section, 0, level - 1), header_text)

\* The for loop of MarkdownChunker.chunk over the lines.
RECURSIVE ChunkLoop(_, _, _, _, _, _)
ChunkLoop(repo_path, lines, st, maxChars, overlap, fuel) ==
    IF lines = <<>> THEN st.out \o Flush(repo_path, st, maxChars, overlap, fuel)
    ELSE LET line == Head(lines)
             m == HeaderMatch(line)
             st1 == IF m.match
                    THEN [current_section |-> PushHeader(st.current_section, m.level, m.text),
                          current_text |-> <<>>,
                          chunk_start_offset |-> st.offset,
                          offset |-> st.offset + Len(line) + 1,
                          out |-> st.out \o Flush(repo_path, st, maxChars, overlap, fuel)]
                    ELSE [st EXCEPT !.current_text = Append(@, line),
                                    !.offset = @ + Len(line) + 1]
         IN  ChunkLoop(repo_path, Tail(lines), st1, maxChars, overlap, fuel)

\* MarkdownChunker(maxChars, overlap).chunk(note), as the list it yields
ChunkWith(note, maxChars, overlap, fuel) ==
    ChunkLoop(note.repo_path, SplitLines(note.content),
              [current_section |-> <<>>, current_text |-> <<>>,
               chunk_start_offset |-> 0, offset |-> 0, out |-> <<>>],
              maxChars, overlap, fuel)

\* Iterations granted to the splitting loop of the chunker.
SplitFuel == 4

\* The most lines of a document given to the chunker under test.
MaxDocLines == 3

\* The lines its documents are made of: headers of depth 1, 2 and 3, a
\* header with a trailing annotation, text, an empty line, a blank line,
\* text with two spaces between its words.
ChunkerLines ==
    { <<"#", " ", "A">>, <<"#", "#", " ", "B">>, <<"#", "#", "#", " ", "C">>,
      <<"#", " ", "A", " ", "[", "t", "]">>, <<"a", "b", " ", "c", "d">>,
      <<>>, <<" ">>, <<"a", " ", " ", "b">> }

ChunkerDocs ==
    { Join(ls, <<"\n">>) : ls \in UNION { [1..n -> ChunkerLines] : n \in 1..MaxDocLines } }

\* (max_chunk_chars, overlap_chars) of the chunker under test: the defaults,
\* and small values of both.
ChunkerConfigs ==
    { <<DefaultMaxChunkChars, DefaultOverlapChars>> } \cup ({1, 2, 4} \X {0, 1, 2, 3})

\* MarkdownChunker(max_chunk_chars, overlap_chars), and a note to chunk.
InitChunker ==
    /\ commits = <<InitCommit>>
    /\ head = 1
    /\ staged = EmptyTree
    /\ work = EmptyTree
    /\ cache = <<>>
    /\ rows = {}
    /\ chunks_fts = {}
    /\ runs = 0
    /\ ret = NoRet
    /\ kept = <<>>
    /\ blobs = {}
    /\ remote = NoRemote
    /\ other = NoCommit
    /\ \E cfg \in ChunkerConfigs, doc \in ChunkerDocs :
          chunker = [max_chunk_chars |-> cfg[1], overlap_chars |-> cfg[2],
                     note |-> [repo_path |-> [path |-> "a.md", ref |-> 1], content |-> doc]]

\* list(chunker.chunk(note))
Chunk ==
    /\ ret = NoRet
    /\ ret' = [op |-> "chunk",
               chunks |-> ChunkWith(chunker.note, chunker.max_chunk_chars,
                                    chunker.overlap_chars, SplitFuel)]
    /\ UNCHANGED <<commits, head, staged, work, cache, rows, runs, kept, chunker, blobs, remote, other, chunks_fts>>

\* list(chunker._split_if_needed(note, section_stack, text_lines, 0)) with the
\* lines of the note as the text of a section.
Split(section_stack) ==
    /\ ret = NoRet
    /\ ret' = [op |-> "split",
               section_stack |-> section_stack,
               chunks |-> SplitIfNeeded(chunker.note.repo_path, section_stack,
                                        SplitLines(chunker.note.content), 0,
                                        chunker.max_chunk_chars, chunker.overlap_chars, SplitFuel),
               steps |-> SplitIterations(chunker.note.repo_path, section_stack,
                                         SplitLines(chunker.note.content), 0,
                                         chunker.max_chunk_chars, chunker.overlap_chars, SplitFuel)]
    /\ UNCHANGED <<commits, head, staged, work, cache, rows, runs, kept, chunker, blobs, remote, other, chunks_fts>>

NextChunker ==
    \/ Chunk
    \/ \E section_stack \in {<<>>, <<<<"A">>, <<"B">>>>} : Split(section_stack)

SpecChunker == InitChunker /\ [][NextChunker]_vars

(***************************************************************************)
(* Part 3: the search index and the index command                          *)
(***************************************************************************)

\* The text of each numbered content:
\*   1  "# A\nx\n# B\ny"   two sections, two chunks
\*   2  "# A"             a header and no text, no chunk
Docs == << <<"#", " ", "A", "\n", "x", "\n", "#", " ", "B", "\n", "y">>,
           <<"#", " ", "A">> >>

\* The embedders an index may be opened with (Embedder.model_id).
ModelIds == {"m1", "m2"}

\* batch_size values the index command is run with
BatchSizes == {1, 2}

\* Embedder.embed / one row of embed_batch: a vector fixed by model and text.
EmbedText(model, text) == <<model, Len(text)>>

\* The UNIQUE(model_id, path, ref, offset) key of a row, and of a chunk
\* stored under a model.
RowKey(r) == <<r.model_id, r.path, r.ref, r.offset>>

ChunkKey(model, c) == <<model, c.repo_path.path, c.repo_path.ref, c.offset>>

\* INSERT OR REPLACE without the REPLACE: the row is added beside the old one.
AddWithEmbeddingKeepingOld(rs, c, embedding, model) ==
    rs \cup { [model_id |-> model, path |-> c.repo_path.path, ref |-> c.repo_path.ref,
               section |-> c.section, text |-> c.text, offset |-> c.offset,
               embedding |-> embedding] }

\* SQLiteSearchIndex._add_with_embedding: INSERT OR REPLACE, committed.
AddWithEmbedding(rs, c, embedding, model) ==
    { r \in rs : RowKey(r) # ChunkKey(model, c) }
    \cup { [model_id |-> model, path |-> c.repo_path.path, ref |-> c.repo_path.ref,
            section |-> c.section, text |-> c.text, offset |-> c.offset,
            embedding |-> embedding] }

\* SQLiteSearchIndex.get_indexed_paths: the (path, ref) pairs stored under
\* the model.
GetIndexedPaths(rs, model) ==
    { [path |-> r.path, ref |-> r.ref] : r \in { x \in rs : x.model_id = model } }

\* SQLiteSearchIndex.clear: DELETE FROM chunks
Clear(rs) == {}

\* The rowid of a full-text entry whose row REPLACE has removed: AUTOINCREMENT
\* never gives the id to a row again, so no stored row has it.
NoRowId == <<>>

\* A full-text entry: the id of the row it was made for (a stored row is
\* named by its key), and the text and the section that were indexed.
FtsEntry(rowid, text, section) == [rowid |-> rowid, text |-> text, section |-> section]

\* Trigger chunks_ai: INSERT INTO chunks_fts(rowid, text, section)
ChunksAi(fts, new) == fts \cup { FtsEntry(RowKey(new), new.text, new.section) }

\* Trigger chunks_ad: INSERT INTO chunks_fts(chunks_fts, rowid, text, section)
\* VALUES('delete', old.id, old.text, old.section)
ChunksAd(fts, old) == fts \ { FtsEntry(RowKey(old), old.text, old.section) }

\* The rows REPLACE removes to make room for the key. recursive_triggers is
\* off, so chunks_ad does not fire for them: their entries stay, under ids
\* that are no row's any more.
ReplaceConflict(fts, key) ==
    { e \in fts : e.rowid # key }
    \cup { FtsEntry(NoRowId, e.text, e.section) : e \in { x \in fts : x.rowid = key } }

\* The full-text index after SQLiteSearchIndex._add_with_embedding.
FtsAddWithEmbedding(fts, c, embedding, model) ==
    ChunksAi(ReplaceConflict(fts, ChunkKey(model, c)),
             [model_id |-> model, path |-> c.repo_path.path, ref |-> c.repo_path.ref,
              section |-> c.section, text |-> c.text, offset |-> c.offset,
              embedding |-> embedding])

\* A DELETE FROM chunks that fires no trigger.
FtsClearFiringNoTrigger(fts, rs) == fts

\* The full-text index after SQLiteSearchIndex.clear: chunks_ad fires for
\* every row deleted.
RECURSIVE FtsClear(_, _)
FtsClear(fts, rs) ==
    IF rs = {} THEN fts
    ELSE LET old == CHOOSE r \in rs : TRUE
         IN  FtsClear(ChunksAd(fts, old), rs \ {old})

\* Commonplace.note_paths / notes: the .md files of the working tree, in the
\* order os.walk lists them, each resolved by make_repo_path and read.
WalkOrder == <<"a.md", "b.md">>

RECURSIVE NotesOf(_, _)
NotesOf(order, map) ==
    IF order = <<>> THEN <<>>
    ELSE LET p == Head(order)
         IN  (IF work[p] # NoFile
              THEN <<[repo_path |-> [path |-> p, ref |-> RefOf(p, map)],
                      content |-> work[p]]>>
              ELSE <<>>)
             \o NotesOf(Tail(order), map)

\* index: the test of the older store, which compared paths only
RECURSIVE NotesToIndexByPath(_, _)
NotesToIndexByPath(notes, indexed) ==
    IF notes = <<>> THEN <<>>
    ELSE (IF Head(notes).repo_path.path \notin { i.path : i \in indexed }
          THEN <<Head(notes)>> ELSE <<>>)
         \o NotesToIndexByPath(Tail(notes), indexed)

\* index: the notes whose (path, ref) is not indexed with this model
RECURSIVE NotesToIndex(_, _)
NotesToIndex(notes, indexed) ==
    IF notes = <<>> THEN <<>>
    ELSE (IF Head(notes).repo_path \notin indexed THEN <<Head(notes)>> ELSE <<>>)
         \o NotesToIndex(Tail(notes), indexed)

\* MarkdownChunker().chunk of every numbered content under every path,
\* computed once; the chunks of a note are these with the note's repo_path.
ChunksByPathAndContent ==
    { [path |-> p, content |-> d,
       chunks |-> ChunkWith([repo_path |-> [path |-> p, ref |-> NoCommit], content |-> Docs[d]],
                            DefaultMaxChunkChars, DefaultOverlapChars, SplitFuel)]
      : p \in Paths, d \in Contents }

\* list(chunker.chunk(note)) for a note holding a numbered content
ChunkNote(note) ==
    LET m == CHOOSE m \in ChunksByPathAndContent :
                 m.path = note.repo_path.path /\ m.content = note.content
    IN  [i \in 1..Len(m.chunks) |-> [m.chunks[i] EXCEPT !.repo_path = note.repo_path]]

\* index: chunker.chunk over the notes to index
RECURSIVE AllChunks(_)
AllChunks(notes) ==
    IF notes = <<>> THEN <<>>
    ELSE ChunkNote(Head(notes)) \o AllChunks(Tail(notes))

\* How a run of index ends other than by returning: embed_batch raises for
\* batch number `at` (1-based), or the process dies after `at` upserts (and
\* its lru_cache with it).
NoStop == [kind |-> "none", at |-> 0]

\* The upserts of one batch, the first `limit` of them.
RECURSIVE StoreBatch(_, _, _, _)
StoreBatch(rs, batch, model, limit) ==
    IF batch = <<>> \/ limit <= 0 THEN rs
    ELSE StoreBatch(AddWithEmbedding(rs, Head(batch), EmbedText(model, Head(batch).text), model),
                    Tail(batch), model, limit - 1)

\* The batch loop run as one transaction that a failure rolls back.
BatchLoopOneTransaction(rs, chunks, i, batchNo, batch_size, model, stop) ==
    IF stop.kind = "none"
    THEN StoreBatch(rs, chunks, model, Len(chunks))
    ELSE rs

\* index: the loop over the batches; i is the 0-based start of the batch.
RECURSIVE BatchLoop(_, _, _, _, _, _, _)
BatchLoop(rs, chunks, i, batchNo, batch_size, model, stop) ==
    IF i >= Len(chunks) THEN rs
    ELSE IF stop.kind = "embed" /\ stop.at = batchNo THEN rs
    ELSE IF stop.kind = "crash" /\ stop.at <= i THEN rs
    ELSE LET batch == PySlice(chunks, i, i + batch_size)
             limit == IF stop.kind = "crash" THEN stop.at - i ELSE Len(batch)
         IN  BatchLoop(StoreBatch(rs, batch, model, limit), chunks, i + batch_size,
                       batchNo + 1, batch_size, model, stop)

\* The full-text index after the upserts of one batch, the first `limit` of
\* them.
RECURSIVE FtsStoreBatch(_, _, _, _)
FtsStoreBatch(fts, batch, model, limit) ==
    IF batch = <<>> \/ limit <= 0 THEN fts
    ELSE FtsStoreBatch(
            FtsAddWithEmbedding(fts, Head(batch), EmbedText(model, Head(batch).text), model),
            Tail(batch), model, limit - 1)

\* The full-text index after the loop over the batches.
RECURSIVE FtsBatchLoop(_, _, _, _, _, _, _)
FtsBatchLoop(fts, chunks, i, batchNo, batch_size, model, stop) ==
    IF i >= Len(chunks) THEN fts
    ELSE IF stop.kind = "embed" /\ stop.at = batchNo THEN fts
    ELSE IF stop.kind = "crash" /\ stop.at <= i THEN fts
    ELSE LET batch == PySlice(chunks, i, i + batch_size)
             limit == IF stop.kind = "crash" THEN stop.at - i ELSE Len(batch)
         IN  FtsBatchLoop(FtsStoreBatch(fts, batch, model, limit), chunks, i + batch_size,
                          batchNo + 1, batch_size, model, stop)

\* The number of batches: (len(all_chunks) + batch_size - 1) // batch_size
NumBatches(n, batch_size) == (n + batch_size - 1) \div batch_size

\* The ways a run can stop that the model follows.
Stops == {NoStop} \cup { [kind |-> k, at |-> a] : k \in {"embed", "crash"}, a \in 0..3 }

\* index(repo, db_path, rebuild, batch_size, embedder). The values the code
\* holds in local variables are bound once.
Index(rebuild, model, batch_size) ==
    /\ runs < MaxRuns
    /\ runs' = runs + 1
    /\ \E cleared \in {IF rebuild THEN Clear(rows) ELSE rows},
          map \in {CachedMap(commits, head, cache)} :
       \E all_notes \in {NotesOf(WalkOrder, map)},
          indexed \in {GetIndexedPaths(cleared, model)} :
       \E notes_to_index \in {IF rebuild THEN all_notes ELSE NotesToIndex(all_notes, indexed)} :
       \E all_chunks \in {AllChunks(notes_to_index)} :
       \E stop \in Stops :
          /\ stop.kind = "embed" => stop.at \in 1..NumBatches(Len(all_chunks), batch_size)
          /\ stop.kind = "crash" => stop.at \in 0..(Len(all_chunks) - 1)
          /\ rows' = BatchLoop(cleared, all_chunks, 0, 1, batch_size, model, stop)
          /\ chunks_fts' = FtsBatchLoop(IF rebuild THEN FtsClear(chunks_fts, rows) ELSE chunks_fts,
                                        all_chunks, 0, 1, batch_size, model, stop)
          /\ cache' = IF stop.kind = "crash" THEN <<>>
                      ELSE IF \E p \in Paths : work[p] # NoFile /\ PathStatus(p) = "CURRENT"
                      THEN <<map>> ELSE cache
          /\ ret' = [op |-> "index", rebuild |-> rebuild, model |-> model,
                     outcome |-> IF stop.kind = "none" THEN "done"
                                 ELSE IF stop.kind = "embed" THEN "embed_failed" ELSE "crashed",
                     failed |-> IF stop.kind = "embed"
                                THEN <<[batch |-> stop.at, batch_size |-> batch_size]>> ELSE <<>>,
                     processed |-> { notes_to_index[i].repo_path : i \in 1..Len(notes_to_index) }]
    /\ UNCHANGED <<commits, head, staged, work, kept, chunker, blobs, remote, other>>

\* The command line up to the last run of index the model follows.
NextIndex ==
    \/ /\ runs < MaxRuns
       /\ \/ \E p \in Paths, c \in Contents : Save(p, c)
          \/ Commit("Update note")
          \/ \E p \in Paths : MakeRepoPath(p, FALSE, FALSE)
          \/ NewProcess
    \/ \E rebuild \in BOOLEAN, model \in ModelIds, b \in BatchSizes : Index(rebuild, model, b)

\* The index command run on a freshly initialised repository.
InitIndex == Init /\ Len(commits) = 1

SpecIndex == InitIndex /\ [][NextIndex]_vars

(***************************************************************************)
(* Part 4: the search index used directly (SQLiteSearchIndex)              *)
(***************************************************************************)

\* The most rows the store is followed to.
MaxStoredRows == 3

\* The chunks the store is called with: of a.md at commit 1 the offsets 0
\* and 6, of a.md at commit 2 and of b.md at commit 1 the offset 0, each
\* with two bodies.
StoreChunks ==
    { [repo_path |-> [path |-> i[1], ref |-> i[2]], text |-> b.text, section |-> b.section,
       offset |-> i[3]] :
        i \in { <<"a.md", 1, 0>>, <<"a.md", 1, 6>>, <<"a.md", 2, 0>>, <<"b.md", 1, 0>> },
        b \in { [text |-> <<"x">>, section |-> <<"A">>],
                [text |-> <<"y", "z">>, section |-> <<"B">>] } }

\* The lists add_chunks is called with: no chunk, one chunk, two chunks of
\* one document.
StoreChunkLists ==
    {<<>>} \cup { <<c>> : c \in StoreChunks }
    \cup UNION { { <<c, d>> : d \in { e \in StoreChunks : e.repo_path = c.repo_path } } :
                  c \in StoreChunks }

\* SQLiteSearchIndex.add_chunk(chunk), the index opened with embedder model
AddChunk(model, c) ==
    /\ rows' = AddWithEmbedding(rows, c, EmbedText(model, c.text), model)
    /\ chunks_fts' = FtsAddWithEmbedding(chunks_fts, c, EmbedText(model, c.text), model)
    /\ Cardinality(rows') <= MaxStoredRows
    /\ ret' = [op |-> "add_chunk", model |-> model, chunk |-> c, before |-> Cardinality(rows)]
    /\ UNCHANGED <<commits, head, staged, work, cache, runs, kept, chunker, blobs, remote, other>>

\* SQLiteSearchIndex.add_chunks(chunks)
AddChunks(model, cs) ==
    /\ rows' = IF cs = <<>> THEN rows ELSE StoreBatch(rows, cs, model, Len(cs))
    /\ chunks_fts' = IF cs = <<>> THEN chunks_fts
                     ELSE FtsStoreBatch(chunks_fts, cs, model, Len(cs))
    /\ Cardinality(rows') <= MaxStoredRows
    /\ ret' = [op |-> "add_chunks", model |-> model, len |-> Len(cs), before |-> Cardinality(rows)]
    /\ UNCHANGED <<commits, head, staged, work, cache, runs, kept, chunker, blobs, remote, other>>

\* SQLiteSearchIndex.clear()
ClearStore ==
    /\ rows' = Clear(rows)
    /\ chunks_fts' = FtsClear(chunks_fts, rows)
    /\ ret' = [op |-> "clear", before |-> Cardinality(rows)]
    /\ UNCHANGED <<commits, head, staged, work, cache, runs, kept, chunker, blobs, remote, other>>

NextStore ==
    \/ \E model \in ModelIds, c \in StoreChunks : AddChunk(model, c)
    \/ \E model \in ModelIds, cs \in StoreChunkLists : AddChunks(model, cs)
    \/ ClearStore

SpecStore == InitIndex /\ [][NextStore]_vars

(***************************************************************************)
(* Part 5: search (SQLiteSearchIndex.search and the three methods)         *)
(***************************************************************************)

\* The largest limit search is called with.
MaxLimit == 2

\* k of search_hybrid(query, limit, k=60)
RrfK == 60

\* The most calls of search the model follows.
MaxSearches == 1

\* The queries: the text of the first body, the section of the second, and
\* a question.
Queries == { <<"x">>, <<"B">>, <<"x", "?">> }

SearchMethods == {"semantic", "keyword", "hybrid"}

\* A method search is called with that is none of SearchMethod: the "fts" of
\* the earlier interface.
UnknownMethods == {"fts"}

\* The coordinates of an embedding: every model has its own vector space,
\* the first coordinate leading under "m1" and the second under "m2".
EmbeddingVector(embedding) ==
    IF embedding[1] = "m1" THEN <<embedding[2], 1>> ELSE <<1, embedding[2]>>

\* _cosine_similarity(query, embedding) for one stored vector, kept exact as
\* the square of the cosine num / den (all coordinates are positive, so the
\* order of the squares is the order of the cosines).
CosineSimilarity(query, embedding) ==
    LET q == EmbeddingVector(query)
        e == EmbeddingVector(embedding)
        dot == q[1] * e[1] + q[2] * e[2]
    IN  [num |-> dot * dot,
         den |-> (q[1] * q[1] + q[2] * q[2]) * (e[1] * e[1] + e[2] * e[2])]

\* similarity a is strictly greater than similarity b
SimGreater(a, b) == a.num * b.den > b.num * a.den

\* Chunk(repo_path=RepoPath(path, ref), section, text, offset) built of a row
ChunkOfRow(r) ==
    [repo_path |-> [path |-> r.path, ref |-> r.ref], text |-> r.text, section |-> r.section,
     offset |-> r.offset]

\* The sequences that list every element of S once.
Orders(S) ==
    { f \in [1..Cardinality(S) -> S] : \A i, j \in 1..Cardinality(S) : f[i] = f[j] => i = j }

\* A SELECT without the WHERE clause: every row, of whatever model.
RowsOfAnyModel(rs, model) == rs

\* SELECT ... FROM chunks WHERE model_id = ?: the rows of the model only.
RowsOfModel(rs, model) == { r \in rs : r.model_id = model }

\* SQLiteSearchIndex._search_by_embedding: the rows of the model by
\* descending similarity, the first limit of them. Rows of equal similarity
\* come in the order argsort and the SELECT leave them in, which is any.
SearchByEmbedding(rs, model, query_embedding, limit) ==
    LET loaded == RowsOfModel(rs, model)
    IN  { [i \in 1..Len(PySlice(order, 0, limit)) |->
              [chunk |-> ChunkOfRow(order[i]),
               score |-> CosineSimilarity(query_embedding, order[i].embedding)]] :
          order \in { f \in Orders(loaded) :
                        \A i, j \in 1..Len(f) :
                           i < j => ~SimGreater(CosineSimilarity(query_embedding, f[j].embedding),
                                                CosineSimilarity(query_embedding, f[i].embedding)) } }

\* SQLiteSearchIndex.search_semantic
SearchSemantic(rs, model, query, limit) ==
    SearchByEmbedding(rs, model, EmbedText(model, query), limit)

\* The words the full-text index holds for a text: its maximal runs without
\* space or newline.
RECURSIVE FtsTokens(_, _)
FtsTokens(text, word) ==
    IF text = <<>> THEN (IF word = <<>> THEN {} ELSE {word})
    ELSE IF IsSpace(Head(text))
         THEN (IF word = <<>> THEN {} ELSE {word}) \cup FtsTokens(Tail(text), <<>>)
         ELSE FtsTokens(Tail(text), Append(word, Head(text)))

\* chunks_fts MATCH query, for a query of one word: the word is in the text
\* or in the section of the row.
FtsMatch(r, query) == query \in FtsTokens(r.text, <<>>) \cup FtsTokens(r.section, <<>>)

\* The rank of a matching row (negative, lower is better), kept as minus the
\* number of columns the word is found in: bm25 ranks rows of equal text and
\* section equally, and a row with more occurrences before one with fewer.
FtsRank(r, query) ==
    0 - ((IF query \in FtsTokens(r.text, <<>>) THEN 1 ELSE 0)
         + (IF query \in FtsTokens(r.section, <<>>) THEN 1 ELSE 0))

\* SQLiteSearchIndex.search_keyword: chunks_fts JOIN chunks WHERE MATCH
\* ORDER BY rank LIMIT limit, the score of a hit being -rank. Rows of equal
\* rank come in any order.
SearchKeyword(fts, rs, query, limit) ==
    LET matching == { r \in rs : \E e \in fts : e.rowid = RowKey(r) /\ FtsMatch(e, query) }
        rank(r) == FtsRank(CHOOSE e \in fts : e.rowid = RowKey(r) /\ FtsMatch(e, query), query)
    IN  { [i \in 1..Len(PySlice(order, 0, limit)) |->
              [chunk |-> ChunkOfRow(order[i]), score |-> 0 - rank(order[i])]] :
          order \in { f \in Orders(matching) :
                        \A i, j \in 1..Len(f) : i < j => rank(f[i]) <= rank(f[j]) } }

\* Whether fts5 accepts the query: a word of letters and digits is a query,
\* a string with a character such as "?" is a syntax error, which execute
\* raises as sqlite3.OperationalError.
FtsQueryOk(query) ==
    /\ query # <<>>
    /\ \A i \in 1..Len(query) : query[i] \notin {"?", "'", "-", ".", " ", "\n"}

\* chunk_key of search_hybrid
HybridChunkKey(chunk) == <<chunk.repo_path.path, chunk.offset>>

\* The product of k + 1 .. k + n: scores of search_hybrid are kept exact as
\* multiples of 1 / RrfScale(k, MaxLimit).
RECURSIVE RrfScale(_, _)
RrfScale(k, n) == IF n = 0 THEN 1 ELSE (k + n) * RrfScale(k, n - 1)

\* 1.0 / (k + rank)
Rrf(k, rank) == RrfScale(k, MaxLimit) \div (k + rank)

RECURSIVE SumRrf(_, _, _, _)
SumRrf(result_set, key, k, rank) ==
    IF rank > Len(result_set) THEN 0
    ELSE (IF HybridChunkKey(result_set[rank].chunk) = key THEN Rrf(k, rank) ELSE 0)
         + SumRrf(result_set, key, k, rank + 1)

\* The fusion of search_hybrid: rrf_scores and chunk_lookup filled from the
\* keyword results and then from the semantic results, the keys sorted by
\* descending score (keys of equal score stay in the order they were first
\* met), the first limit of them returned.
Fuse(keyword_results, semantic_results, limit, k) ==
    LET all == keyword_results \o semantic_results
        key(i) == HybridChunkKey(all[i].chunk)
        score(i) == SumRrf(keyword_results, key(i), k, 1) + SumRrf(semantic_results, key(i), k, 1)
        first == { i \in 1..Len(all) : \A j \in 1..(i - 1) : key(j) # key(i) }
        last(i) == CHOOSE j \in 1..Len(all) :
                      key(j) = key(i) /\ \A m \in (j + 1)..Len(all) : key(m) # key(i)
        pos(i) == 1 + Cardinality({ j \in first : \/ score(j) > score(i)
                                                  \/ score(j) = score(i) /\ j < i })
        sorted_keys == [p \in 1..Cardinality(first) |-> CHOOSE i \in first : pos(i) = p]
    IN  [p \in 1..Len(PySlice(sorted_keys, 0, limit)) |->
            [chunk |-> all[last(sorted_keys[p])].chunk, score |-> score(sorted_keys[p])]]

\* A search that takes the hybrid branch for every method it does not know.
SearchBranchDefaultingToHybrid(method) ==
    IF method \in {"semantic", "keyword"} THEN method ELSE "hybrid"

\* The branch of the if / elif chain of search that the method selects; the
\* else branch raises ValueError.
SearchBranch(method) ==
    IF method \in {"semantic", "keyword", "hybrid"} THEN method ELSE "ValueError"

\* SQLiteSearchIndex.search(query, limit, method), the index opened with
\* embedder model. steps lists what the call did: "match" the full-text
\* query, "embed" the embedding of the query, "select" the read of the
\* vectors of the model.
Search(model, query, limit, method) ==
    /\ runs < MaxSearches
    /\ runs' = runs + 1
    /\ \E branch \in {SearchBranch(method)} :
       \E matched \in {branch \in {"keyword", "hybrid"}} :
       \E raised \in {IF branch = "ValueError" THEN "ValueError"
                      ELSE IF matched /\ ~FtsQueryOk(query) THEN "OperationalError"
                      ELSE "none"} :
       \E embedded \in {branch = "semantic" \/ (branch = "hybrid" /\ raised = "none")} :
       \E keyword_results \in (IF matched /\ raised = "none"
                               THEN SearchKeyword(chunks_fts, rows, query, limit) ELSE {<<>>}),
          semantic_results \in (IF embedded
                                THEN SearchSemantic(rows, model, query, limit) ELSE {<<>>}) :
          ret' = [op |-> "search", method |-> method, model |-> model, query |-> query,
                  limit |-> limit,
                  raised |-> raised,
                  steps |-> (IF matched THEN <<"match">> ELSE <<>>)
                            \o (IF embedded THEN <<"embed", "select">> ELSE <<>>),
                  keyword_results |-> keyword_results,
                  semantic_results |-> semantic_results,
                  hits |-> IF raised # "none" THEN <<>>
                           ELSE CASE branch = "semantic" -> semantic_results
                                  [] branch = "keyword" -> keyword_results
                                  [] OTHER -> Fuse(keyword_results, semantic_results, limit, RrfK)]
    /\ UNCHANGED <<commits, head, staged, work, cache, rows, kept, chunker, blobs, remote, other, chunks_fts>>

\* SQLiteSearchIndex.get_indexed_paths(), the index opened with embedder model
IndexedPaths(model) ==
    /\ ret' = [op |-> "get_indexed_paths", model |-> model, paths |-> GetIndexedPaths(rows, model)]
    /\ UNCHANGED <<commits, head, staged, work, cache, rows, runs, kept, chunker, blobs, remote, other, chunks_fts>>

\* SQLiteSearchIndex.stats(): the number of rows of every model_id, path, ref
Stats ==
    /\ ret' = [op |-> "stats",
               stats |-> { [model_id |-> g[1], repo_path |-> [path |-> g[2], ref |-> g[3]],
                            num_chunks |-> Cardinality({ r \in rows :
                                              <<r.model_id, r.path, r.ref>> = g })] :
                           g \in { <<r.model_id, r.path, r.ref>> : r \in rows } }]
    /\ UNCHANGED <<commits, head, staged, work, cache, rows, runs, kept, chunker, blobs, remote, other, chunks_fts>>

\* The chunks stored before searching: the first chunk of either version of
\* a.md, with either body, and a chunk of b.md with the word "B" in its text
\* and in its section.
SearchChunks ==
    { c \in StoreChunks : c.offset = 0 /\ c.repo_path.path = "a.md" }
    \cup { [repo_path |-> [path |-> "b.md", ref |-> 1], text |-> <<"B">>, section |-> <<"B">>,
            offset |-> 0] }

\* The calls on the index up to the last search the model follows.
NextSearch ==
    \/ /\ runs < MaxSearches
       /\ \/ \E model \in ModelIds, c \in SearchChunks : AddChunk(model, c)
          \/ ClearStore
    \/ \E model \in ModelIds, query \in Queries, limit \in 0..MaxLimit,
          method \in SearchMethods \cup UnknownMethods :
          Search(model, query, limit, method)
    \/ \E model \in ModelIds : IndexedPaths(model)
    \/ Stats

SpecSearch == InitIndex /\ [][NextSearch]_vars

(***************************************************************************)
(* Part 6: the blob store (Commonplace.store_blob)                         *)
(***************************************************************************)

\* The files given to store_blob: raw bytes under a name in some directory.
BlobBytes == { <<1>>, <<2>>, <<1, 1>> }
BlobNames == { "data.bin", "sample.txt" }
BlobDirs == { "a", "b" }
SourceFiles == [dir : BlobDirs, name : BlobNames, content : BlobBytes]

\* _hash_file(path): the digest of the file's raw bytes. Distinct contents get
\* distinct digests: the bytes read as a base-256 numeral behind a leading 1.
RECURSIVE HashFile(_)
HashFile(bytes) ==
    IF bytes = <<>> THEN 1
    ELSE 256 * HashFile(SubSeq(bytes, 1, Len(bytes) - 1)) + bytes[Len(bytes)]

\* The stored path: .commonplace/blobs/<digest>/<name of the source file>
BlobPath(digest, name) == <<".commonplace", "blobs", digest, name>>

\* Commonplace.store_blob(source): the file is copied to its stored path and
\* staged, unless a file is stored there already; the stored path is returned.
StoreBlob(source) ==
    LET path == BlobPath(HashFile(source.content), source.name)
    IN  /\ blobs' = IF \E b \in blobs : b.path = path
                    THEN blobs
                    ELSE blobs \cup { [path |-> path, content |-> source.content] }
        /\ ret' = [op |-> "store_blob", source |-> source, path |-> path]
        /\ UNCHANGED <<commits, head, staged, work, cache, rows, chunks_fts, runs, kept, chunker, remote, other>>

NextBlobs == \E source \in SourceFiles : StoreBlob(source)

SpecBlobs == Init /\ [][NextBlobs]_vars

(***************************************************************************)
(* Part 7: sync (Commonplace.sync). The remote holds only what this        *)
(* repository pushed to it, so a pull that reaches it finds nothing new.   *)
(***************************************************************************)

\* The branch checked out (git rev-parse --abbrev-ref HEAD); Commonplace.init
\* creates it and nothing of the program checks out another.
CurrentBranch == "main"

\* The branch argument of sync: "None" is the default, the current branch.
BranchArgs == { "None", "main", "other" }
SyncStrategies == { "rebase", "merge" }

\* The git command that fails for a reason outside the repository (the remote
\* cannot be reached, the push is rejected), if any.
SyncFailures == { "none", "pull", "push" }

\* has_remote("origin")
HasRemote == remote # NoRemote

\* git status --porcelain prints something: the index differs from HEAD, or
\* the working tree from the index (untracked files included).
StatusPorcelain(head_tree, index, worktree) == index # head_tree \/ worktree # index

\* git pull --rebase refuses to start ("cannot pull with rebase"): the index
\* holds uncommitted changes, or a tracked file has unstaged changes.
CannotPullWithRebase(head_tree, index, worktree) ==
    \/ index # head_tree
    \/ \E p \in Paths : index[p] # NoFile /\ worktree[p] # index[p]

AutoCommitMessage == "Auto-commit before sync"

\* Step 2 of sync: git add -A, git commit -m ..., when auto_commit is set and
\* status prints something. git commit fails when add -A leaves the index
\* equal to HEAD (a staged change undone in the working tree).
SyncAutoCommit(auto_commit) ==
    IF auto_commit /\ StatusPorcelain(HeadTree, staged, work)
    THEN IF ~HasChanges(work, HeadTree)
         THEN [steps |-> <<[step |-> "commit", outcome |-> "failed"]>>,
               staged |-> work, commits |-> commits, head |-> head]
         ELSE [steps |-> <<[step |-> "commit", outcome |-> "ok"]>>,
               staged |-> work,
               commits |-> CreateCommit(commits, head, AutoCommitMessage, work),
               head |-> Len(commits) + 1]
    ELSE [steps |-> <<>>, staged |-> staged, commits |-> commits, head |-> head]

\* Step 3 of sync: git pull origin <branch> [--rebase]; "no_ref" is git's
\* "couldn't find remote ref", which sync takes for a first push.
SyncPull(c, branch, strategy, fail) ==
    IF strategy = "rebase" /\ CannotPullWithRebase(c.commits[c.head].tree, c.staged, work)
    THEN "failed"
    ELSE IF fail = "pull" THEN "failed"
    ELSE IF remote[1][branch] = NoCommit THEN "no_ref"
    ELSE "ok"

\* The local ref git push origin <branch> sends.
LocalRef(branch, h) == IF branch = CurrentBranch THEN h ELSE other

\* Step 4 of sync: git push origin <branch>; it fails when no local branch
\* has that name ("src refspec does not match any").
SyncPush(c, branch, fail) ==
    IF fail = "push" \/ LocalRef(branch, c.head) = NoCommit THEN "failed" ELSE "ok"

\* Commonplace.sync(remote_name="origin", branch, strategy, auto_commit)
Sync(branch_arg, strategy, auto_commit, fail) ==
    IF ~HasRemote
    THEN /\ fail = "none"
         /\ ret' = [op |-> "sync", branch |-> branch_arg, strategy |-> strategy,
                    auto_commit |-> auto_commit, had_remote |-> FALSE,
                    changes |-> StatusPorcelain(HeadTree, staged, work),
                    steps |-> <<>>, raised |-> "ValueError"]
         /\ UNCHANGED <<commits, head, staged, work, cache, rows, chunks_fts, runs, kept,
                        chunker, blobs, remote, other>>
    ELSE \E branch \in {IF branch_arg = "None" THEN CurrentBranch ELSE branch_arg} :
         \E c \in {SyncAutoCommit(auto_commit)} :
            LET committed == IF c.steps = <<>> THEN TRUE ELSE c.steps[1].outcome = "ok"
                pull == SyncPull(c, branch, strategy, fail)
                pulled == committed /\ pull # "failed"
                push == SyncPush(c, branch, fail)
                steps == c.steps
                         \o (IF committed THEN <<[step |-> "pull", outcome |-> pull]>> ELSE <<>>)
                         \o (IF pulled THEN <<[step |-> "push", outcome |-> push]>> ELSE <<>>)
            IN  /\ Len(c.commits) <= MaxCommits
                /\ (fail = "pull" => committed)
                /\ (fail = "push" => pulled)
                /\ commits' = c.commits
                /\ head' = c.head
                /\ staged' = c.staged
                /\ remote' = IF pulled /\ push = "ok"
                             THEN <<[remote[1] EXCEPT ![branch] = LocalRef(branch, c.head)]>>
                             ELSE remote
                /\ ret' = [op |-> "sync", branch |-> branch, strategy |-> strategy,
                           auto_commit |-> auto_commit, had_remote |-> TRUE,
                           changes |-> StatusPorcelain(HeadTree, staged, work),
                           steps |-> steps,
                           raised |-> IF steps[Len(steps)].outcome = "failed"
                                      THEN "ValueError" ELSE "none"]
                /\ UNCHANGED <<work, cache, rows, chunks_fts, runs, kept, chunker, blobs, other>>

\* The repositories sync is run in: a freshly initialised one, without a
\* remote, or with a remote that is still empty or was pushed to before, and
\* with or without a second local branch made at the first commit.
InitSync ==
    /\ commits = <<InitCommit>>
    /\ head = 1
    /\ staged = EmptyTree
    /\ work = EmptyTree
    /\ cache = <<>>
    /\ rows = {}
    /\ chunks_fts = {}
    /\ runs = 0
    /\ ret = NoRet
    /\ kept = <<>>
    /\ chunker = <<>>
    /\ blobs = {}
    /\ remote \in { NoRemote,
                    <<[b \in {"main", "other"} |-> NoCommit]>>,
                    <<[b \in {"main", "other"} |-> IF b = "main" THEN 1 ELSE NoCommit]>> }
    /\ other \in { NoCommit, 1 }

\* One note is written, edited and committed between the runs of sync.
NextSync ==
    \/ \E c \in Contents : Save("a.md", c)
    \/ \E c \in Contents \cup {NoFile} : WorkEdit("a.md", c)
    \/ Commit("Update note")
    \/ \E branch \in BranchArgs, strategy \in SyncStrategies, auto_commit \in BOOLEAN,
          fail \in SyncFailures : Sync(branch, strategy, auto_commit, fail)

SpecSync == InitSync /\ [][NextSync]_vars

(***************************************************************************)
(* Claims about the repository                                             *)
(***************************************************************************)

Resolved == ret.op = "make_repo_path" /\ ~ret.raised

\* make_repo_path leaves the repository as it is, so the status its last call
\* saw is the status of the state it returned in.
CleanPath(p) == StatusKnown(p) /\ StatusFlags(p) = {}

\* c changed p: it has no parent and holds p, or p's entry differs from the
\* entry of c's first parent.
Changed(cs, c, p) ==
    IF cs[c].parents = <<>> THEN cs[c].tree[p] # NoFile
    ELSE cs[c].tree[p] # cs[cs[c].parents[1]].tree[p]

\* The youngest commit reachable from h that changed p.
LastChanged(cs, h, p) ==
    LET A == { c \in Reachable(cs, {h}) : Changed(cs, c, p) }
    IN  IF A = {} THEN NoCommit ELSE CHOOSE c \in A : \A d \in A : d <= c

\* C1: two RepoPath values returned by make_repo_path with equal path and
\* equal ref name the same file content.
C1_EqualRepoPathsSameContent ==
    (/\ Resolved
     /\ kept # <<>>
     /\ work[ret.path] # NoFile
     /\ kept[1].path = ret.path
     /\ kept[1].ref = ret.ref)
    => kept[1].content = work[ret.path]

\* C2: for a clean path make_repo_path returns the youngest commit reachable
\* from HEAD that changed the path.
C2_CleanPathGetsLastChangingCommit ==
    (Resolved /\ CleanPath(ret.path))
    => ret.ref = LastChanged(commits, head, ret.path)

\* C3: for a clean path make_repo_path returns what a fresh history walk from
\* the current HEAD returns, never an entry computed for an earlier HEAD.
C3_MapIsTheMapOfHead ==
    (Resolved /\ CleanPath(ret.path))
    => ret.ref = MapGet(BuildPathCommitMap(commits, head), ret.path, head)

\* C4: for a path that is new, modified, staged or unknown to git status,
\* make_repo_path returns the current HEAD commit.
C4_UncommittedPathGetsHead ==
    (ret.op = "make_repo_path" /\ ~CleanPath(ret.path))
    => (~ret.raised /\ ret.ref = head)

\* A staged modification of a path whose last change is an earlier commit.
C4_Witness ==
    /\ Resolved
    /\ "INDEX_MODIFIED" \in StatusFlags(ret.path)
    /\ ret.ref = head
    /\ LastChanged(commits, head, ret.path) \notin {NoCommit, head}

\* C5: when the history walk fails while a clean path is resolved,
\* make_repo_path does not raise and returns the HEAD commit as ref.
C5_WalkFailureFallsBackToHead ==
    (ret.op = "make_repo_path" /\ ret.walkFailed)
    => (~ret.raised /\ ret.ref = head)

(***************************************************************************)
(* Claims about the index command                                          *)
(***************************************************************************)

\* The step is a run of index.
IndexStep == runs' = runs + 1

\* The last operation was a run of index with rebuild=False that completed;
\* a new process since then leaves that so, a save or a commit does not.
LastCompletedIncremental == ret.op = "index" /\ ~ret.rebuild /\ ret.outcome = "done"

\* The identities of the current documents, as make_repo_path resolves them.
CurrentIdentities ==
    { [path |-> p, ref |-> RefOf(p, CachedMap(commits, head, cache))] :
        p \in { q \in Paths : work[q] # NoFile } }

\* The chunks of the current document at p, under the identity id.
ChunksAt(id) == ChunkNote([repo_path |-> id, content |-> work[id.path]])

\* The row a chunk is stored as under a model.
RowOf(model, c) ==
    [model_id |-> model, path |-> c.repo_path.path, ref |-> c.repo_path.ref,
     section |-> c.section, text |-> c.text, offset |-> c.offset,
     embedding |-> EmbedText(model, c.text)]

\* C6: a second run of index with rebuild=False, with no document change
\* since the first, leaves the stored rows (and so their count) unchanged.
C6_SecondIncrementalRunChangesNothing ==
    [][ (/\ LastCompletedIncremental
         /\ IndexStep
         /\ ~ret'.rebuild
         /\ ret'.outcome = "done"
         /\ ret'.model = ret.model)
        => rows' = rows ]_vars

\* C7: a completed run with rebuild=False that follows an interrupted run
\* leaves every chunk of every current document stored for the active model.
C7_ResumeLeavesNoDocumentPartial ==
    [][ (/\ ret.op = "index"
         /\ ret.outcome \in {"embed_failed", "crashed"}
         /\ IndexStep
         /\ ~ret'.rebuild
         /\ ret'.outcome = "done")
        => \A p \in { q \in Paths : work[q] # NoFile } :
              LET cs == ChunksAt([path |-> p, ref |-> NoCommit])
              IN  \A i \in 1..Len(cs) :
                     \E r \in rows' : /\ r.model_id = ret'.model
                                      /\ r.path = p
                                      /\ r.offset = cs[i].offset
                                      /\ r.text = cs[i].text ]_vars

\* The chunks of the documents a run processed, in the order of the walk.
RECURSIVE ProcessedChunks(_, _)
ProcessedChunks(order, processed) ==
    IF order = <<>> THEN <<>>
    ELSE LET ids == { id \in processed : id.path = Head(order) }
         IN  (IF ids = {} THEN <<>> ELSE ChunksAt(CHOOSE id \in ids : TRUE))
             \o ProcessedChunks(Tail(order), processed)

\* C8: when embed_batch fails for batch i, the rows of the batches before i
\* are stored exactly as written and nothing else of the store has changed:
\* no row of batch i or of a later batch is stored by the run.
C8_EmbedFailureKeepsEarlierBatches ==
    [][ (IndexStep /\ ret'.outcome = "embed_failed")
        => LET base == IF ret'.rebuild THEN {} ELSE rows
               chunks == ProcessedChunks(WalkOrder, ret'.processed)
               k == (ret'.failed[1].batch - 1) * ret'.failed[1].batch_size
               written == { RowOf(ret'.model, chunks[j]) : j \in 1..k }
           IN  /\ k < Len(chunks)
               /\ rows' = { r \in base : RowKey(r) \notin { RowKey(w) : w \in written } }
                           \cup written ]_vars

\* A rebuild with batches of two whose second batch failed: the two rows of
\* the first batch are stored, and no other row.
C8_Witness ==
    /\ ret.op = "index"
    /\ ret.outcome = "embed_failed"
    /\ ret.rebuild
    /\ ret.failed[1] = [batch |-> 2, batch_size |-> 2]
    /\ Cardinality(rows) = 2

\* C9: a run with rebuild=False that follows a completed one, with no
\* document change between them, has an empty work set.
C9_NoDocumentProcessedTwice ==
    [][ (/\ LastCompletedIncremental
         /\ IndexStep
         /\ ~ret'.rebuild
         /\ ret'.model = ret.model)
        => ret'.processed = {} ]_vars

\* C10: with rebuild=False index processes exactly the current documents
\* whose identity get_indexed_paths does not return for the active model;
\* with rebuild=True it processes every current document and keeps no row
\* of the store it found, so that after it completes the identities stored
\* for the active model are those of the current documents with a chunk.
C10_WorkSet ==
    [][ IndexStep
        => IF ret'.rebuild
           THEN /\ ret'.processed = CurrentIdentities
                /\ \A r \in rows' : /\ r.model_id = ret'.model
                                     /\ [path |-> r.path, ref |-> r.ref] \in CurrentIdentities
                /\ ret'.outcome = "done"
                   => GetIndexedPaths(rows', ret'.model)
                      = { id \in CurrentIdentities : ChunksAt(id) # <<>> }
           ELSE ret'.processed = CurrentIdentities \ GetIndexedPaths(rows, ret'.model) ]_vars

\* A second run, a completed rebuild over two documents of which one
\* yields chunks and the other none.
C10_Witness ==
    /\ ret.op = "index"
    /\ ret.rebuild
    /\ ret.outcome = "done"
    /\ runs = 2
    /\ Cardinality(ret.processed) = 2
    /\ rows # {}
    /\ \E p \in Paths : work[p] # NoFile /\ ChunksAt([path |-> p, ref |-> NoCommit]) = <<>>

\* A row of an earlier version of the clean path p: stored under a commit
\* older than the one that last changed p, and holding text that is no chunk
\* of the content p has now.
RowOfEarlierVersion(r, p) ==
    /\ r.path = p
    /\ r.ref < LastChanged(commits, head, p)
    /\ LET cs == ChunksAt([path |-> p, ref |-> NoCommit])
       IN  \A i \in 1..Len(cs) : ~(cs[i].offset = r.offset /\ cs[i].text = r.text)

\* C11: once a run with rebuild=False has completed, the index holds, under
\* the active model, no row of an earlier version of a path whose changed
\* content is committed.
C11_NoRowOfEarlierVersion ==
    [][ (IndexStep /\ ~ret'.rebuild /\ ret'.outcome = "done")
        => \A p \in { q \in Paths : CleanPath(q) /\ work[q] # NoFile } :
              \A r \in rows' : r.model_id = ret'.model => ~RowOfEarlierVersion(r, p) ]_vars

(***************************************************************************)
(* Claims about the store                                                  *)
(***************************************************************************)

\* The rows stored under the key of chunk c and model.
RowsAt(rs, model, c) == { r \in rs : RowKey(r) = ChunkKey(model, c) }

\* add_chunk(c) on a store that holds c's key: the row count stays, the row
\* of the key is the one of c, every other row is as it was.
Replaced(model, c) ==
    /\ Cardinality(rows') = Cardinality(rows)
    /\ RowsAt(rows', model, c) = { RowOf(model, c) }
    /\ rows' \ RowsAt(rows', model, c) = rows \ RowsAt(rows, model, c)

\* C12: no two stored rows share (model_id, path, ref, offset); adding a
\* chunk whose key is stored replaces the row's section, text and embedding
\* and leaves the row count unchanged; add_chunks of no chunk changes nothing.
C12_UniqueKeyAndUpsert ==
    [][ /\ \A r1 \in rows', r2 \in rows' : RowKey(r1) = RowKey(r2) => r1 = r2
        /\ (ret'.op = "add_chunk" /\ RowsAt(rows, ret'.model, ret'.chunk) # {})
           => Replaced(ret'.model, ret'.chunk)
        /\ (ret'.op = "add_chunks" /\ ret'.len = 0) => rows' = rows
        /\ ret'.op = "add_chunks" => Cardinality(rows') <= Cardinality(rows) + ret'.len ]_vars

\* add_chunk has just been called on a store of several rows that held the
\* chunk's key: the row count is the one before the call.
C12_Witness ==
    /\ ret.op = "add_chunk"
    /\ ret.before = Cardinality(rows)
    /\ Cardinality(rows) >= 2

(***************************************************************************)
(* Claims about the chunker                                                *)
(***************************************************************************)

Chunked == ret.op = "chunk"

StartsWith(s, prefix) == Len(prefix) <= Len(s) /\ SubSeq(s, 1, Len(prefix)) = prefix

EndsWith(s, suffix) ==
    Len(suffix) <= Len(s) /\ SubSeq(s, Len(s) - Len(suffix) + 1, Len(s)) = suffix

\* content[offset:]
From(content, offset) == PySlice(content, offset, Len(content))

\* offset is where a line of content begins.
AtLineStart(content, offset) ==
    offset = 0 \/ (offset \in 1..Len(content) /\ content[offset] = "\n")

\* content[offset:] starts with what chunk c was derived from: the header
\* line that opened c's section, or the document start for text before any
\* header, or (after whitespace) the text of c itself.
OffsetPointsAtSource(content, c) ==
    /\ c.offset \in 0..Len(content)
    /\ \/ c.offset = 0 /\ c.section = PathStem(c.repo_path.path)
       \/ /\ AtLineStart(content, c.offset)
          /\ LET m == HeaderMatch(SplitLines(From(content, c.offset))[1])
             IN  m.match /\ EndsWith(c.section, m.text)
       \/ StartsWith(LStrip(From(content, c.offset)), c.text)

\* C13: for every chunk, sub-chunks of a split section included,
\* note.content[chunk.offset:] starts with the source text of the chunk.
C13_OffsetPointsAtSource ==
    Chunked => \A i \in 1..Len(ret.chunks) :
                  OffsetPointsAtSource(chunker.note.content, ret.chunks[i])

\* The headings open after the lines: a header of depth d closes every
\* heading from the d-th on and opens its own.
RECURSIVE OpenHeadings(_, _)
OpenHeadings(lines, open) ==
    IF lines = <<>> THEN open
    ELSE LET m == HeaderMatch(Head(lines))
         IN  OpenHeadings(Tail(lines),
                          IF m.match
                          THEN [i \in 1..(IF m.level <= Len(open) THEN m.level ELSE Len(open) + 1) |->
                                   IF i <= m.level - 1 /\ i <= Len(open) THEN open[i] ELSE m.text]
                          ELSE open)

\* The label of the place offset points at: the open headings after the line
\* that begins there, joined by " / ", or the file stem when none is open.
LabelAt(note, offset) ==
    LET before == PySlice(note.content, 0, offset)
        n == Cardinality({ i \in 1..Len(before) : before[i] = "\n" })
        open == OpenHeadings(SubSeq(SplitLines(note.content), 1, n + 1), <<>>)
    IN  IF open = <<>> THEN PathStem(note.repo_path.path)
        ELSE Join(open, <<" ", "/", " ">>)

\* C14: the section label of a chunk is the " / " join of the headings open
\* where its text occurs, a trailing bracketed annotation stripped from the
\* heading text, and the file stem where no heading is open. (Checked where
\* no section is split, so that the offset of a chunk is the offset of the
\* line that opened its section.)
C14_SectionLabelIsOpenHeadings ==
    (Chunked /\ Len(chunker.note.content) <= chunker.max_chunk_chars)
    => \A i \in 1..Len(ret.chunks) :
          /\ ret.chunks[i].section = LabelAt(chunker.note, ret.chunks[i].offset)
          /\ \A j \in 1..Len(ret.chunks[i].section) : ret.chunks[i].section[j] \notin {"[", "]"}

\* "## B", then "# A [t]", then text: the chunk of the text is labelled "A".
C14_Witness ==
    /\ Chunked
    /\ chunker.note.content = <<"#", "#", " ", "B", "\n", "#", " ", "A", " ", "[", "t", "]", "\n",
                                "a", "b", " ", "c", "d">>
    /\ Len(ret.chunks) = 1
    /\ ret.chunks[1].section = <<"A">>
    /\ ret.chunks[1].offset = 5

\* C15: chunk never emits a chunk whose text is empty or whitespace-only,
\* for whole sections and for every sub-chunk of a split section.
C15_NoEmptyChunk ==
    Chunked => \A i \in 1..Len(ret.chunks) : Strip(ret.chunks[i].text) # <<>>

\* _split_if_needed has returned its iterations for a text that is split.
SplitDone == ret.op = "split" /\ ret.steps # <<>>

\* C16: for every max_chunk_chars >= 1 and overlap_chars >= 0 the read cursor
\* of the splitting loop strictly advances on every iteration, so the loop
\* ends when the section text is exhausted.
C16_CursorStrictlyAdvances ==
    (SplitDone /\ chunker.max_chunk_chars >= 1 /\ chunker.overlap_chars >= 0)
    => /\ \A i \in 1..Len(ret.steps) : ret.steps[i].next_pos > ret.steps[i].current_pos
       /\ Len(ret.steps) < SplitFuel

\* C17: the offsets of the chunks of one document are non-decreasing in
\* emission order, for every max_chunk_chars >= 1 and overlap_chars >= 0.
C17_OffsetsNonDecreasing ==
    (Chunked /\ chunker.max_chunk_chars >= 1 /\ chunker.overlap_chars >= 0)
    => \A i \in 1..(Len(ret.chunks) - 1) : ret.chunks[i].offset <= ret.chunks[i + 1].offset

\* Some non-empty text ends a and begins b.
SharesText(a, b) ==
    \E k \in 1..(IF Len(a) < Len(b) THEN Len(a) ELSE Len(b)) :
       SubSeq(a, Len(a) - k + 1, Len(a)) = SubSeq(b, 1, k)

\* _split_if_needed has returned for a section whose stripped text is longer
\* than max_chunk_chars, under a configuration with 1 <= overlap_chars < max_chunk_chars.
SplitOfLongSection ==
    /\ ret.op = "split"
    /\ Len(Strip(chunker.note.content)) > chunker.max_chunk_chars
    /\ chunker.overlap_chars >= 1
    /\ chunker.overlap_chars < chunker.max_chunk_chars

\* C18: a section whose stripped text is longer than max_chunk_chars is
\* emitted as at least two sub-chunks, each of at most max_chunk_chars
\* characters, all with the parent's section label; every sub-chunk after the
\* first begins overlap_chars characters before the end of the preceding one,
\* so adjacent sub-chunks share text.
C18_SubChunksOverlap ==
    SplitOfLongSection
    => /\ Len(ret.chunks) >= 2
       /\ \A i \in 1..Len(ret.chunks) :
             /\ Len(ret.chunks[i].text) <= chunker.max_chunk_chars
             /\ ret.chunks[i].section = ret.chunks[1].section
       /\ \A i \in 2..Len(ret.chunks) :
             /\ ret.steps[i].current_pos = ret.steps[i - 1].end_pos - chunker.overlap_chars
             /\ SharesText(ret.chunks[i - 1].text, ret.chunks[i].text)

(***************************************************************************)
(* Claims about search                                                     *)
(***************************************************************************)

\* search has returned for the method.
Searched(method) == ret.op = "search" /\ ret.method = method

\* The terms 1 / (k + rank) of the ranks at which the chunk stands in the
\* result list, or 0 when it is not in the list.
OwnTerms(result_set, chunk) ==
    IF \E j \in 1..Len(result_set) : result_set[j].chunk = chunk
    THEN { Rrf(RrfK, j) : j \in { m \in 1..Len(result_set) : result_set[m].chunk = chunk } }
    ELSE {0}

\* C19: in hybrid search the score of every returned hit is the sum, over
\* the keyword list and the semantic list, of 1 / (k + rank) for the rank of
\* the hit's chunk in each list in which it appears.
C19_HybridScoreIsSumOfOwnRanks ==
    Searched("hybrid")
    => \A i \in 1..Len(ret.hits) :
          ret.hits[i].score \in { a + b : a \in OwnTerms(ret.keyword_results, ret.hits[i].chunk),
                                          b \in OwnTerms(ret.semantic_results, ret.hits[i].chunk) }

\* C20: rows of a model other than the active one never influence the
\* active model: the hits of semantic search are rows of the active model,
\* scored against the query by their own vectors, as many as the limit and
\* the rows of the active model allow, and the same as if no other row were
\* stored; get_indexed_paths yields the identities of the rows of the
\* active model only.
C20_OtherModelsDoNotInfluence ==
    /\ Searched("semantic")
       => LET active == { r \in rows : r.model_id = ret.model }
              query_embedding == EmbedText(ret.model, ret.query)
          IN  /\ Len(ret.hits) = IF ret.limit < Cardinality(active) THEN ret.limit
                                  ELSE Cardinality(active)
              /\ \A i \in 1..Len(ret.hits) :
                    \E r \in active :
                       /\ ChunkOfRow(r) = ret.hits[i].chunk
                       /\ ret.hits[i].score = CosineSimilarity(query_embedding, r.embedding)
              /\ ret.hits \in SearchByEmbedding(active, ret.model, query_embedding, ret.limit)
    /\ ret.op = "get_indexed_paths"
       => ret.paths = { [path |-> r.path, ref |-> r.ref] :
                           r \in { x \in rows : x.model_id = ret.model } }

\* A semantic search that returned a hit and fewer hits than its limit,
\* while a row of another model is stored.
C20_Witness ==
    /\ Searched("semantic")
    /\ Len(ret.hits) >= 1
    /\ Len(ret.hits) < ret.limit
    /\ \E r \in rows : r.model_id # ret.model

C22_EmptyIndexReturnsEmptyList ==
    (ret.op = "search" /\ ret.method \in SearchMethods /\ rows = {})
    => (ret.hits = <<>> /\ ret.raised = "none")

\* search has returned a list for one of the three methods.
Returned == ret.op = "search" /\ ret.method \in SearchMethods /\ ret.raised = "none"

\* Score a is at least score b: similarities are compared as fractions, the
\* scores of keyword and hybrid search as numbers.
ScoreAtLeast(method, a, b) ==
    IF method = "semantic" THEN a.num * b.den >= b.num * a.den ELSE a >= b

\* C23: for every search method and every limit >= 0, search returns at most
\* limit hits, ordered by non-increasing score, the score of a keyword hit
\* being the negation of the rank of its full-text entry.
C23_AtMostLimitByDescendingScore ==
    Returned
    => /\ Len(ret.hits) <= ret.limit
       /\ \A i \in 1..(Len(ret.hits) - 1) :
             ScoreAtLeast(ret.method, ret.hits[i].score, ret.hits[i + 1].score)
       /\ ret.method = "keyword"
          => \A i \in 1..Len(ret.hits) :
                \E r \in rows, e \in chunks_fts :
                   /\ ChunkOfRow(r) = ret.hits[i].chunk
                   /\ e.rowid = RowKey(r)
                   /\ ret.hits[i].score = 0 - FtsRank(e, ret.query)
                   /\ ret.hits[i].score > 0

\* A keyword search that returned as many hits as its limit, the first with
\* a greater score than the second, with a further matching row left out.
C23_Witness ==
    /\ Returned
    /\ ret.method = "keyword"
    /\ ret.limit = 2
    /\ Len(ret.hits) = 2
    /\ ret.hits[1].score > ret.hits[2].score
    /\ Cardinality({ r \in rows : FtsMatch(r, ret.query) }) = 3

\* C24: clear() removes every stored row, of every model_id, together with
\* its full-text entry; a get_indexed_paths, a stats or a search that comes
\* immediately afterwards yields nothing.
C24_ClearRemovesEverything ==
    [][ /\ ret'.op = "clear"
           => /\ rows' = {}
              /\ \A e \in chunks_fts' : e.rowid = NoRowId
              /\ \A r \in rows : FtsEntry(RowKey(r), r.text, r.section) \notin chunks_fts'
        /\ (ret.op = "clear" /\ ret'.op = "get_indexed_paths") => ret'.paths = {}
        /\ (ret.op = "clear" /\ ret'.op = "stats") => ret'.stats = {}
        /\ (ret.op = "clear" /\ ret'.op = "search") => ret'.hits = <<>> ]_vars

\* clear() has removed two rows or more.
C24_Witness ==
    /\ ret.op = "clear"
    /\ ret.before >= 2
    /\ rows = {}

(***************************************************************************)
(* Claims about the blob store                                             *)
(***************************************************************************)

\* C25: the stored path is determined by content alone: two store_blob calls
\* return the same stored path if and only if the stored contents are
\* identical, whatever the name or place of the source file, and identical
\* content is stored once. Every call's path is the path of a stored file, so
\* the claim is stated over the stored files and the last call.
C25_StoredPathDeterminedByContent ==
    /\ \A x, y \in blobs : (x.path = y.path) <=> (x.content = y.content)
    /\ ret.op = "store_blob" =>
          \A b \in blobs : (b.path = ret.path) <=> (b.content = ret.source.content)

(***************************************************************************)
(* Claims about commit and sync                                            *)
(***************************************************************************)

\* C26: commit(message) called when the staged tree equals the tree of HEAD
\* creates no commit and leaves HEAD where it was; called when the staged tree
\* differs, it creates exactly one commit, whose only parent is the previous
\* HEAD, whose tree is the staged tree and whose message is the given one,
\* and HEAD points at it.
C26_CommitOnlyWhenStagedDiffers ==
    [][ ret'.op = "commit" =>
          IF staged = HeadTree
          THEN commits' = commits /\ head' = head
          ELSE /\ Len(commits') = Len(commits) + 1
               /\ SubSeq(commits', 1, Len(commits)) = commits
               /\ head' = Len(commits')
               /\ commits'[head'].parents = <<head>>
               /\ commits'[head'].tree = staged
               /\ commits'[head'].message = ret'.message ]_vars

\* C26: a second commit was made on top of an earlier one, with its message.
C26_Witness ==
    /\ ret.op = "commit"
    /\ ret.created
    /\ ret.message = "Add second note"
    /\ head = 3
    /\ commits[head].parents = <<2>>
    /\ commits[head].message = "Add second note"
    /\ commits[2].message = "Update note"

\* The place of a step in the order sync documents.
StepRank(name) == CASE name = "commit" -> 1 [] name = "pull" -> 2 [] name = "push" -> 3

SyncRan(name) == \E i \in 1..Len(ret.steps) : ret.steps[i].step = name

\* C27: sync checks the remote first and without one raises ValueError with
\* no step run; otherwise the steps run in the order auto-commit (only if
\* enabled and there are changes), pull, push; push runs only after a pull
\* that succeeded or found no remote branch; a failing step raises ValueError
\* and is the last step; after a successful sync the remote branch points at
\* the local HEAD.
C27_SyncStepsInOrder ==
    ret.op = "sync" =>
        /\ ~ret.had_remote => (ret.raised = "ValueError" /\ ret.steps = <<>>)
        /\ \A i, j \in 1..Len(ret.steps) :
              i < j => StepRank(ret.steps[i].step) < StepRank(ret.steps[j].step)
        /\ SyncRan("commit") <=> (ret.had_remote /\ ret.auto_commit /\ ret.changes)
        /\ \A j \in 1..Len(ret.steps) :
              ret.steps[j].step = "push" =>
                 \E i \in 1..(j - 1) : /\ ret.steps[i].step = "pull"
                                       /\ ret.steps[i].outcome \in {"ok", "no_ref"}
        /\ \A i \in 1..Len(ret.steps) :
              ret.steps[i].outcome = "failed" => (i = Len(ret.steps) /\ ret.raised = "ValueError")
        /\ ret.raised = "none" =>
              /\ SyncRan("pull") /\ SyncRan("push")
              /\ remote # NoRemote
              /\ remote[1][ret.branch] = head

(***************************************************************************)
(* Claims about the full-text mirror and the model filter                  *)
(***************************************************************************)

\* C28: after any sequence of add_chunk, add_chunks and clear calls, upserts
\* included, chunks_fts holds exactly one entry per row of chunks, with the
\* row's current text and section, and no entry for a replaced or deleted row.
C28_FtsMirrorsChunks ==
    chunks_fts = { FtsEntry(RowKey(r), r.text, r.section) : r \in rows }

\* C29: every hit keyword search or hybrid search returns is a row stored
\* under the index's active model_id, also when rows of other model_ids are
\* stored in the same database.
C29_HitsAreOfActiveModel ==
    (Returned /\ ret.method \in {"keyword", "hybrid"}) =>
        \A i \in 1..Len(ret.hits) :
            \E r \in rows : r.model_id = ret.model /\ ChunkOfRow(r) = ret.hits[i].chunk

\* C30: in hybrid search each of the two candidate lists contributes at most
\* one 1/(k + rank) term to the score of a hit, also when several versions of
\* a path are stored with equal offsets; so no score exceeds 2/(k + 1).
\* Scores are in units of 1/RrfScale(RrfK, MaxLimit).
C30_HybridScoreAtMostTwoTopRanks ==
    (Returned /\ ret.method = "hybrid") =>
        \A i \in 1..Len(ret.hits) : ret.hits[i].score <= 2 * Rrf(RrfK, 1)

====
